---- MODULE Spec2Model ----
(***************************************************************************)
(* Model of the snip snippet store (src/snip/storage.py).                  *)
(*                                                                         *)
(* Python strings that the code inspects character by character (names,   *)
(* languages, tags, search queries, path names) are sequences of           *)
(* one-character strings.  The text held by a file is a tagged record:     *)
(* either the raw characters written by f.write, or the JSON serialisation *)
(* of a dictionary written by json.dump.  Dictionaries are functions from  *)
(* key strings to values.  The model is the POSIX behaviour of Python's    *)
(* text-mode files (newline=None).                                         *)
(***************************************************************************)
EXTENDS Integers, Sequences, FiniteSets, TLC

VARIABLES
    files,      \* the regular files of the snippets directory: path name -> text
    dirExists,  \* whether ~/.snip/snippets exists
    last,       \* the call that ran last, with its arguments
    ret,        \* what that call returned or raised
    hist,       \* history: sanitized name -> the add that is current for it
    nops,       \* number of add, delete and update calls made so far
    pending     \* the calls that have begun and not returned, with their locals

vars == <<files, dirExists, last, ret, hist, nops, pending>>

(***************************************************************************)
(* Bounds.                                                                 *)
(***************************************************************************)
\* longest name given to sanitize_name in the exhaustive enumeration
MaxNameLen == 3
\* number of add, delete and update calls in one behaviour
MaxOps == 3
\* number of leading letters of a language whose case is varied
MaxCasePos == 3

(***************************************************************************)
(* Strings.                                                                *)
(***************************************************************************)
\* str.__add__ over a sequence of one-character strings, as a TLC string
RECURSIVE Str(_)
Str(s) == IF s = <<>> THEN "" ELSE s[1] \o Str(Tail(s))

lower_char(c) ==
    CASE c = "A" -> "a"
      [] c = "B" -> "b"
      [] c = "C" -> "c"
      [] c = "D" -> "d"
      [] c = "E" -> "e"
      [] c = "F" -> "f"
      [] c = "G" -> "g"
      [] c = "H" -> "h"
      [] c = "I" -> "i"
      [] c = "J" -> "j"
      [] c = "K" -> "k"
      [] c = "L" -> "l"
      [] c = "M" -> "m"
      [] c = "N" -> "n"
      [] c = "O" -> "o"
      [] c = "P" -> "p"
      [] c = "Q" -> "q"
      [] c = "R" -> "r"
      [] c = "S" -> "s"
      [] c = "T" -> "t"
      [] c = "U" -> "u"
      [] c = "V" -> "v"
      [] c = "W" -> "w"
      [] c = "X" -> "x"
      [] c = "Y" -> "y"
      [] c = "Z" -> "z"
      [] OTHER -> c

\* str.lower()
lower(s) == [i \in 1..Len(s) |-> lower_char(s[i])]

\* q in s, for strings: q is a contiguous substring of s
contains(s, q) ==
    \E i \in 0..(Len(s) - Len(q)) : SubSeq(s, i + 1, i + Len(q)) = q

\* s.endswith(suffix)
endswith(s, suffix) ==
    /\ Len(s) >= Len(suffix)
    /\ SubSeq(s, Len(s) - Len(suffix) + 1, Len(s)) = suffix

(***************************************************************************)
(* Language -> extension.                                                  *)
(***************************************************************************)
LANG_EXTENSIONS ==
       ("python" :> <<".", "p", "y">>)
    @@ ("javascript" :> <<".", "j", "s">>)
    @@ ("typescript" :> <<".", "t", "s">>)
    @@ ("rust" :> <<".", "r", "s">>)
    @@ ("go" :> <<".", "g", "o">>)
    @@ ("ruby" :> <<".", "r", "b">>)
    @@ ("java" :> <<".", "j", "a", "v", "a">>)
    @@ ("c" :> <<".", "c">>)
    @@ ("cpp" :> <<".", "c", "p", "p">>)
    @@ ("c++" :> <<".", "c", "p", "p">>)
    @@ ("csharp" :> <<".", "c", "s">>)
    @@ ("c#" :> <<".", "c", "s">>)
    @@ ("php" :> <<".", "p", "h", "p">>)
    @@ ("swift" :> <<".", "s", "w", "i", "f", "t">>)
    @@ ("kotlin" :> <<".", "k", "t">>)
    @@ ("scala" :> <<".", "s", "c", "a", "l", "a">>)
    @@ ("shell" :> <<".", "s", "h">>)
    @@ ("bash" :> <<".", "s", "h">>)
    @@ ("zsh" :> <<".", "z", "s", "h">>)
    @@ ("fish" :> <<".", "f", "i", "s", "h">>)
    @@ ("powershell" :> <<".", "p", "s", "1">>)
    @@ ("sql" :> <<".", "s", "q", "l">>)
    @@ ("html" :> <<".", "h", "t", "m", "l">>)
    @@ ("css" :> <<".", "c", "s", "s">>)
    @@ ("scss" :> <<".", "s", "c", "s", "s">>)
    @@ ("sass" :> <<".", "s", "a", "s", "s">>)
    @@ ("less" :> <<".", "l", "e", "s", "s">>)
    @@ ("json" :> <<".", "j", "s", "o", "n">>)
    @@ ("yaml" :> <<".", "y", "a", "m", "l">>)
    @@ ("yml" :> <<".", "y", "a", "m", "l">>)
    @@ ("toml" :> <<".", "t", "o", "m", "l">>)
    @@ ("xml" :> <<".", "x", "m", "l">>)
    @@ ("markdown" :> <<".", "m", "d">>)
    @@ ("md" :> <<".", "m", "d">>)
    @@ ("lua" :> <<".", "l", "u", "a">>)
    @@ ("perl" :> <<".", "p", "l">>)
    @@ ("r" :> <<".", "r">>)
    @@ ("julia" :> <<".", "j", "l">>)
    @@ ("haskell" :> <<".", "h", "s">>)
    @@ ("elixir" :> <<".", "e", "x">>)
    @@ ("erlang" :> <<".", "e", "r", "l">>)
    @@ ("clojure" :> <<".", "c", "l", "j">>)
    @@ ("lisp" :> <<".", "l", "i", "s", "p">>)
    @@ ("scheme" :> <<".", "s", "c", "m">>)
    @@ ("ocaml" :> <<".", "m", "l">>)
    @@ ("fsharp" :> <<".", "f", "s">>)
    @@ ("f#" :> <<".", "f", "s">>)
    @@ ("zig" :> <<".", "z", "i", "g">>)
    @@ ("nim" :> <<".", "n", "i", "m">>)
    @@ ("v" :> <<".", "v">>)
    @@ ("dart" :> <<".", "d", "a", "r", "t">>)
    @@ ("vue" :> <<".", "v", "u", "e">>)
    @@ ("svelte" :> <<".", "s", "v", "e", "l", "t", "e">>)
    @@ ("jsx" :> <<".", "j", "s", "x">>)
    @@ ("tsx" :> <<".", "t", "s", "x">>)
    @@ ("text" :> <<".", "t", "x", "t">>)

txt_ext == <<".", "t", "x", "t">>

\* a lookup that leaves out language.lower()
get_extension_case_sensitive(language) ==
    LET key == Str(language)
    IN  IF key \in DOMAIN LANG_EXTENSIONS THEN LANG_EXTENSIONS[key] ELSE txt_ext

\* LANG_EXTENSIONS.get(language.lower(), ".txt")
get_extension(language) ==
    LET key == Str(lower(language))
    IN  IF key \in DOMAIN LANG_EXTENSIONS THEN LANG_EXTENSIONS[key] ELSE txt_ext

\* LANG_EXTENSIONS.items(): the entries of the table in the order of the source
LANG_ITEMS ==
    <<
      [lang |-> <<"p", "y", "t", "h", "o", "n">>, ext |-> <<".", "p", "y">>],
      [lang |-> <<"j", "a", "v", "a", "s", "c", "r", "i", "p", "t">>, ext |-> <<".", "j", "s">>],
      [lang |-> <<"t", "y", "p", "e", "s", "c", "r", "i", "p", "t">>, ext |-> <<".", "t", "s">>],
      [lang |-> <<"r", "u", "s", "t">>, ext |-> <<".", "r", "s">>],
      [lang |-> <<"g", "o">>, ext |-> <<".", "g", "o">>],
      [lang |-> <<"r", "u", "b", "y">>, ext |-> <<".", "r", "b">>],
      [lang |-> <<"j", "a", "v", "a">>, ext |-> <<".", "j", "a", "v", "a">>],
      [lang |-> <<"c">>, ext |-> <<".", "c">>],
      [lang |-> <<"c", "p", "p">>, ext |-> <<".", "c", "p", "p">>],
      [lang |-> <<"c", "+", "+">>, ext |-> <<".", "c", "p", "p">>],
      [lang |-> <<"c", "s", "h", "a", "r", "p">>, ext |-> <<".", "c", "s">>],
      [lang |-> <<"c", "#">>, ext |-> <<".", "c", "s">>],
      [lang |-> <<"p", "h", "p">>, ext |-> <<".", "p", "h", "p">>],
      [lang |-> <<"s", "w", "i", "f", "t">>, ext |-> <<".", "s", "w", "i", "f", "t">>],
      [lang |-> <<"k", "o", "t", "l", "i", "n">>, ext |-> <<".", "k", "t">>],
      [lang |-> <<"s", "c", "a", "l", "a">>, ext |-> <<".", "s", "c", "a", "l", "a">>],
      [lang |-> <<"s", "h", "e", "l", "l">>, ext |-> <<".", "s", "h">>],
      [lang |-> <<"b", "a", "s", "h">>, ext |-> <<".", "s", "h">>],
      [lang |-> <<"z", "s", "h">>, ext |-> <<".", "z", "s", "h">>],
      [lang |-> <<"f", "i", "s", "h">>, ext |-> <<".", "f", "i", "s", "h">>],
      [lang |-> <<"p", "o", "w", "e", "r", "s", "h", "e", "l", "l">>, ext |-> <<".", "p", "s", "1">>],
      [lang |-> <<"s", "q", "l">>, ext |-> <<".", "s", "q", "l">>],
      [lang |-> <<"h", "t", "m", "l">>, ext |-> <<".", "h", "t", "m", "l">>],
      [lang |-> <<"c", "s", "s">>, ext |-> <<".", "c", "s", "s">>],
      [lang |-> <<"s", "c", "s", "s">>, ext |-> <<".", "s", "c", "s", "s">>],
      [lang |-> <<"s", "a", "s", "s">>, ext |-> <<".", "s", "a", "s", "s">>],
      [lang |-> <<"l", "e", "s", "s">>, ext |-> <<".", "l", "e", "s", "s">>],
      [lang |-> <<"j", "s", "o", "n">>, ext |-> <<".", "j", "s", "o", "n">>],
      [lang |-> <<"y", "a", "m", "l">>, ext |-> <<".", "y", "a", "m", "l">>],
      [lang |-> <<"y", "m", "l">>, ext |-> <<".", "y", "a", "m", "l">>],
      [lang |-> <<"t", "o", "m", "l">>, ext |-> <<".", "t", "o", "m", "l">>],
      [lang |-> <<"x", "m", "l">>, ext |-> <<".", "x", "m", "l">>],
      [lang |-> <<"m", "a", "r", "k", "d", "o", "w", "n">>, ext |-> <<".", "m", "d">>],
      [lang |-> <<"m", "d">>, ext |-> <<".", "m", "d">>],
      [lang |-> <<"l", "u", "a">>, ext |-> <<".", "l", "u", "a">>],
      [lang |-> <<"p", "e", "r", "l">>, ext |-> <<".", "p", "l">>],
      [lang |-> <<"r">>, ext |-> <<".", "r">>],
      [lang |-> <<"j", "u", "l", "i", "a">>, ext |-> <<".", "j", "l">>],
      [lang |-> <<"h", "a", "s", "k", "e", "l", "l">>, ext |-> <<".", "h", "s">>],
      [lang |-> <<"e", "l", "i", "x", "i", "r">>, ext |-> <<".", "e", "x">>],
      [lang |-> <<"e", "r", "l", "a", "n", "g">>, ext |-> <<".", "e", "r", "l">>],
      [lang |-> <<"c", "l", "o", "j", "u", "r", "e">>, ext |-> <<".", "c", "l", "j">>],
      [lang |-> <<"l", "i", "s", "p">>, ext |-> <<".", "l", "i", "s", "p">>],
      [lang |-> <<"s", "c", "h", "e", "m", "e">>, ext |-> <<".", "s", "c", "m">>],
      [lang |-> <<"o", "c", "a", "m", "l">>, ext |-> <<".", "m", "l">>],
      [lang |-> <<"f", "s", "h", "a", "r", "p">>, ext |-> <<".", "f", "s">>],
      [lang |-> <<"f", "#">>, ext |-> <<".", "f", "s">>],
      [lang |-> <<"z", "i", "g">>, ext |-> <<".", "z", "i", "g">>],
      [lang |-> <<"n", "i", "m">>, ext |-> <<".", "n", "i", "m">>],
      [lang |-> <<"v">>, ext |-> <<".", "v">>],
      [lang |-> <<"d", "a", "r", "t">>, ext |-> <<".", "d", "a", "r", "t">>],
      [lang |-> <<"v", "u", "e">>, ext |-> <<".", "v", "u", "e">>],
      [lang |-> <<"s", "v", "e", "l", "t", "e">>, ext |-> <<".", "s", "v", "e", "l", "t", "e">>],
      [lang |-> <<"j", "s", "x">>, ext |-> <<".", "j", "s", "x">>],
      [lang |-> <<"t", "s", "x">>, ext |-> <<".", "t", "s", "x">>],
      [lang |-> <<"t", "e", "x", "t">>, ext |-> <<".", "t", "x", "t">>]
    >>

\* str.upper(), one character
upper_char(c) ==
    CASE c = "a" -> "A"
      [] c = "b" -> "B"
      [] c = "c" -> "C"
      [] c = "d" -> "D"
      [] c = "e" -> "E"
      [] c = "f" -> "F"
      [] c = "g" -> "G"
      [] c = "h" -> "H"
      [] c = "i" -> "I"
      [] c = "j" -> "J"
      [] c = "k" -> "K"
      [] c = "l" -> "L"
      [] c = "m" -> "M"
      [] c = "n" -> "N"
      [] c = "o" -> "O"
      [] c = "p" -> "P"
      [] c = "q" -> "Q"
      [] c = "r" -> "R"
      [] c = "s" -> "S"
      [] c = "t" -> "T"
      [] c = "u" -> "U"
      [] c = "v" -> "V"
      [] c = "w" -> "W"
      [] c = "x" -> "X"
      [] c = "y" -> "Y"
      [] c = "z" -> "Z"
      [] OTHER -> c

(***************************************************************************)
(* Name sanitisation.                                                      *)
(***************************************************************************)
\* the character class of the regular expression [<>:"/\\|?*]
problematic == {"<", ">", ":", "\"", "/", "\\", "|", "?", "*"}

\* variant of re_sub: the class lacks the asterisk
re_sub_keeps_star(name) ==
    [i \in 1..Len(name) |->
        IF name[i] \in problematic \ {"*"} THEN "_" ELSE name[i]]

\* re.sub(r'[<>:"/\\|?*]', "_", name)
re_sub(name) ==
    [i \in 1..Len(name) |-> IF name[i] \in problematic THEN "_" ELSE name[i]]

RECURSIVE lstrip(_, _)
lstrip(s, chars) ==
    IF s # <<>> /\ s[1] \in chars THEN lstrip(Tail(s), chars) ELSE s

RECURSIVE rstrip(_, _)
rstrip(s, chars) ==
    IF s # <<>> /\ s[Len(s)] \in chars
    THEN rstrip(SubSeq(s, 1, Len(s) - 1), chars)
    ELSE s

\* variant of strip: removes one character at each end at most
strip_once(s, chars) ==
    LET l == IF s # <<>> /\ s[1] \in chars THEN Tail(s) ELSE s
    IN  IF l # <<>> /\ l[Len(l)] \in chars THEN SubSeq(l, 1, Len(l) - 1) ELSE l

\* str.strip(chars)
strip(s, chars) == rstrip(lstrip(s, chars), chars)

unnamed == <<"u", "n", "n", "a", "m", "e", "d">>

sanitize_name(name) ==
    LET sanitized == strip(re_sub(name), {".", " "})
    IN  IF sanitized = <<>> THEN unnamed ELSE sanitized

(***************************************************************************)
(* File texts and JSON.                                                    *)
(***************************************************************************)
\* the text of a file written by f.write(code)
Raw(chars) == [kind |-> "raw", chars |-> chars]

\* the empty dictionary {}
EmptyDict == [k \in {} |-> 0]

\* dict.get(key, default)
dict_get(d, key, default) == IF key \in DOMAIN d THEN d[key] ELSE default

\* d[key] = value
dict_set(d, key, value) ==
    [k \in DOMAIN d \cup {key} |-> IF k = key THEN value ELSE d[k]]

\* json.dump(obj, f, indent=2): the text that serialises obj
json_dump(obj) == [kind |-> "json", obj |-> obj]

\* reading in text mode with newline=None: "\r\n" and "\r" arrive as "\n"
RECURSIVE universal_newlines(_)
universal_newlines(s) ==
    IF s = <<>> THEN <<>>
    ELSE IF s[1] = "\r"
         THEN IF Len(s) >= 2 /\ s[2] = "\n"
              THEN <<"\n">> \o universal_newlines(SubSeq(s, 3, Len(s)))
              ELSE <<"\n">> \o universal_newlines(Tail(s))
         ELSE <<s[1]>> \o universal_newlines(Tail(s))

\* f.read() of a file opened with open(path, "r")
f_read(text) ==
    IF text.kind = "raw" THEN Raw(universal_newlines(text.chars)) ELSE text

\* json.load(f): the dictionary a metadata text serialises; of hand-written
\* text only "{}" is a JSON document here, every other raw text is rejected
json_load(text) ==
    IF text.kind = "json"
    THEN [exc |-> "none", obj |-> text.obj]
    ELSE IF universal_newlines(text.chars) = <<"{", "}">>
         THEN [exc |-> "none", obj |-> EmptyDict]
         ELSE [exc |-> "JSONDecodeError", obj |-> EmptyDict]

(***************************************************************************)
(* Paths.                                                                  *)
(***************************************************************************)
\* the value None where a path is expected (no path is empty)
None == <<>>

meta_suffix == <<".", "m", "e", "t", "a", ".", "j", "s", "o", "n">>

text_language == <<"t", "e", "x", "t">>

\* Path.exists()
exists(fs, path) == path \in DOMAIN fs

\* open(path, "w") followed by a write of text
write_file(fs, path, text) ==
    [p \in DOMAIN fs \cup {path} |-> IF p = path THEN text ELSE fs[p]]

\* Path.unlink()
unlink(fs, path) == [p \in DOMAIN fs \ {path} |-> fs[p]]

get_snippet_paths(name, language) ==
    LET safe_name == sanitize_name(name)
        ext == get_extension(language)
    IN  [code_path |-> safe_name \o ext, meta_path |-> safe_name \o meta_suffix]

find_snippet_files(fs, name) ==
    LET safe_name == sanitize_name(name)
        meta_path == safe_name \o meta_suffix
    IN  IF ~exists(fs, meta_path)
        THEN [exc |-> "none", code_path |-> None, meta_path |-> None]
        ELSE LET loaded == json_load(fs[meta_path])
                 ext == get_extension(dict_get(loaded.obj, "language", text_language))
                 code_path == safe_name \o ext
             IN  IF loaded.exc # "none"
                 THEN [exc |-> loaded.exc, code_path |-> None, meta_path |-> None]
                 ELSE IF ~exists(fs, code_path)
                      THEN [exc |-> "none", code_path |-> None, meta_path |-> meta_path]
                      ELSE [exc |-> "none", code_path |-> code_path, meta_path |-> meta_path]

(***************************************************************************)
(* Store operations: each yields the files it leaves and what it returns.  *)
(***************************************************************************)
Raised(exc) == [kind |-> "raise", exc |-> exc]
ReturnedNone == [kind |-> "None"]
ReturnedBool(b) == [kind |-> "bool", val |-> b]
ReturnedDict(d) == [kind |-> "dict", val |-> d]
ReturnedMapping(m) == [kind |-> "mapping", val |-> m]

\* the metadata dictionary add_snippet builds; tags is the list given, and
\* an empty list stands for both [] and None ("tags or []")
new_meta(name, language, tags, now) ==
    [name |-> name, language |-> language, tags |-> tags, created |-> now]

add_snippet(fs, name, code, language, tags, now) ==
    LET paths == get_snippet_paths(name, language)
        fs1 == write_file(fs, paths.code_path, code)
        fs2 == write_file(fs1, paths.meta_path,
                          json_dump(new_meta(name, language, tags, now)))
    IN  [files |-> fs2, ret |-> ReturnedNone]

\* variant of get_snippet: a snippet without its content file is not found
get_snippet_requires_code(fs, name) ==
    LET found == find_snippet_files(fs, name)
    IN  IF found.exc # "none" THEN Raised(found.exc)
        ELSE IF found.meta_path = None \/ found.code_path = None
        THEN ReturnedNone
        ELSE ReturnedDict(dict_set(json_load(fs[found.meta_path]).obj, "code",
                                   f_read(fs[found.code_path])))

get_snippet(fs, name) ==
    LET found == find_snippet_files(fs, name)
    IN  IF found.exc # "none" THEN Raised(found.exc)
        ELSE IF found.meta_path = None \/ ~exists(fs, found.meta_path)
        THEN ReturnedNone
        ELSE LET meta == json_load(fs[found.meta_path]).obj
                 code == IF found.code_path # None /\ exists(fs, found.code_path)
                         THEN f_read(fs[found.code_path])
                         ELSE Raw(<<>>)
             IN  ReturnedDict(dict_set(meta, "code", code))

\* variant of delete_snippet: the metadata file is left in the directory
delete_snippet_keeps_meta(fs, name) ==
    LET found == find_snippet_files(fs, name)
        fs1 == IF found.code_path # None /\ exists(fs, found.code_path)
               THEN unlink(fs, found.code_path)
               ELSE fs
    IN  IF found.exc # "none" THEN [files |-> fs, ret |-> Raised(found.exc)]
        ELSE IF found.meta_path = None
        THEN [files |-> fs, ret |-> ReturnedBool(FALSE)]
        ELSE [files |-> fs1, ret |-> ReturnedBool(TRUE)]

\* variant of delete_snippet: the content file is left in the directory
delete_snippet_keeps_code(fs, name) ==
    LET found == find_snippet_files(fs, name)
        fs2 == IF exists(fs, found.meta_path)
               THEN unlink(fs, found.meta_path)
               ELSE fs
    IN  IF found.exc # "none" THEN [files |-> fs, ret |-> Raised(found.exc)]
        ELSE IF found.meta_path = None
        THEN [files |-> fs, ret |-> ReturnedBool(FALSE)]
        ELSE [files |-> fs2, ret |-> ReturnedBool(TRUE)]

delete_snippet(fs, name) ==
    LET found == find_snippet_files(fs, name)
        fs1 == IF found.code_path # None /\ exists(fs, found.code_path)
               THEN unlink(fs, found.code_path)
               ELSE fs
        fs2 == IF exists(fs1, found.meta_path)
               THEN unlink(fs1, found.meta_path)
               ELSE fs1
    IN  IF found.exc # "none" THEN [files |-> fs, ret |-> Raised(found.exc)]
        ELSE IF found.meta_path = None
        THEN [files |-> fs, ret |-> ReturnedBool(FALSE)]
        ELSE [files |-> fs2, ret |-> ReturnedBool(TRUE)]

\* variant of update_snippet_meta: writes the metadata of a name that has none
update_snippet_meta_upsert(fs, name, tags_given, tags) ==
    LET found == find_snippet_files(fs, name)
        meta_path == sanitize_name(name) \o meta_suffix
        meta == IF found.meta_path = None THEN EmptyDict
                ELSE json_load(fs[found.meta_path]).obj
        meta1 == IF tags_given THEN dict_set(meta, "tags", tags) ELSE meta
    IN  IF found.exc # "none" THEN [files |-> fs, ret |-> Raised(found.exc)]
        ELSE [files |-> write_file(fs, meta_path, json_dump(meta1)),
              ret |-> ReturnedBool(found.meta_path # None)]

\* variant of update_snippet_meta: tags=None empties the tags ("tags or []")
update_snippet_meta_clears(fs, name, tags_given, tags) ==
    LET found == find_snippet_files(fs, name)
    IN  IF found.exc # "none" THEN [files |-> fs, ret |-> Raised(found.exc)]
        ELSE IF found.meta_path = None \/ ~exists(fs, found.meta_path)
        THEN [files |-> fs, ret |-> ReturnedBool(FALSE)]
        ELSE LET meta == json_load(fs[found.meta_path]).obj
                 meta1 == dict_set(meta, "tags", IF tags_given THEN tags ELSE <<>>)
             IN  [files |-> write_file(fs, found.meta_path, json_dump(meta1)),
                  ret |-> ReturnedBool(TRUE)]

\* tags_given is FALSE for tags=None
update_snippet_meta(fs, name, tags_given, tags) ==
    LET found == find_snippet_files(fs, name)
    IN  IF found.exc # "none" THEN [files |-> fs, ret |-> Raised(found.exc)]
        ELSE IF found.meta_path = None \/ ~exists(fs, found.meta_path)
        THEN [files |-> fs, ret |-> ReturnedBool(FALSE)]
        ELSE LET meta == json_load(fs[found.meta_path]).obj
                 meta1 == IF tags_given THEN dict_set(meta, "tags", tags) ELSE meta
             IN  [files |-> write_file(fs, found.meta_path, json_dump(meta1)),
                  ret |-> ReturnedBool(TRUE)]

\* str.replace(old, new)
RECURSIVE str_replace(_, _, _)
str_replace(s, old, new) ==
    IF Len(s) < Len(old) THEN s
    ELSE IF SubSeq(s, 1, Len(old)) = old
         THEN new \o str_replace(SubSeq(s, Len(old) + 1, Len(s)), old, new)
         ELSE <<s[1]>> \o str_replace(Tail(s), old, new)

\* Path.stem: the file name without its last suffix
path_stem(path) ==
    LET dots == {i \in 2..(Len(path) - 1) : path[i] = "."}
    IN  IF dots = {} THEN path
        ELSE SubSeq(path, 1, (CHOOSE i \in dots : \A j \in dots : j <= i) - 1)

\* snippets_dir.glob("*.meta.json")
glob_meta(fs) == {p \in DOMAIN fs : endswith(p, meta_suffix)}

\* the key list_all_snippets files a metadata file under
listed_name(fs, meta_path) ==
    dict_get(json_load(fs[meta_path]).obj, "name",
             str_replace(path_stem(meta_path), <<".", "m", "e", "t", "a">>, <<>>))

\* The set of results list_all_snippets can give: glob yields the files in
\* no defined order, and of two files with the same key the later one wins.
list_all_snippets(fs) ==
    LET metas == glob_meta(fs)
        names == {listed_name(fs, p) : p \in metas}
        objs == {json_load(fs[p]).obj : p \in metas}
    IN  IF \E p \in metas : json_load(fs[p]).exc # "none"
        THEN {Raised("JSONDecodeError")}
        ELSE {ReturnedMapping(m) : m \in
                {f \in [names -> objs] :
                    \A n \in names : \E p \in metas :
                        /\ listed_name(fs, p) = n
                        /\ f[n] = json_load(fs[p]).obj}}

\* variant of search_match: the fields are compared in the case they have
search_match_case_sensitive(query, name, data) ==
    \/ contains(name, query)
    \/ contains(dict_get(data, "language", <<>>), query)
    \/ \E i \in DOMAIN dict_get(data, "tags", <<>>) :
            contains(dict_get(data, "tags", <<>>)[i], query)

\* the condition of the loop of search_snippets, query already lower-cased
search_match(query, name, data) ==
    \/ contains(lower(name), query)
    \/ contains(lower(dict_get(data, "language", <<>>)), query)
    \/ \E i \in DOMAIN dict_get(data, "tags", <<>>) :
            contains(lower(dict_get(data, "tags", <<>>)[i]), query)

search_in(listing, query) ==
    IF listing.kind = "raise" THEN listing
    ELSE LET snippets == listing.val
             hits == {n \in DOMAIN snippets : search_match(lower(query), n, snippets[n])}
         IN  ReturnedMapping([n \in hits |-> snippets[n]])

search_snippets(fs, query) == {search_in(listing, query) : listing \in list_all_snippets(fs)}

(***************************************************************************)
(* Inputs.                                                                 *)
(***************************************************************************)
name_a == <<"a">>
name_a_dot == <<"a", ".">>
name_a_meta == <<"a", ".", "m", "e", "t", "a">>

\* the names snippets are added and deleted under
Names == {name_a_dot, name_a_meta}

\* the names snippets are looked up under: "a" is another spelling of "a."
Spellings == Names \cup {name_a}

Stems == {sanitize_name(n) : n \in Spellings}

lang_Python == <<"P", "y", "t", "h", "o", "n">>
lang_json == <<"j", "s", "o", "n">>

Languages == {lang_Python, lang_json}

Codes == {Raw(<<"x">>), Raw(<<"\r">>)}

tag_T == <<"T">>
tag_u == <<"u">>

TagLists == {<<>>, <<tag_u, tag_T>>}

\* one query for a name ("a.meta"), one for a language ("Python"), one for a
\* tag ("u"), each in the other letter case
Queries == {<<"M", "E">>, <<"p", "Y">>, <<"U">>}

\* the characters of the exhaustive enumeration of names
NameChars == problematic \cup {".", " ", "_", "a"}

SanitizeInputs ==
    UNION {[1..n -> NameChars] : n \in 0..MaxNameLen}
        \cup {unnamed, <<" ">> \o unnamed \o <<".">>}

(***************************************************************************)
(* History.                                                                *)
(***************************************************************************)
NoAdd == [present |-> FALSE]

Added(name, code, language, tags) ==
    [present |-> TRUE, name |-> name, code |-> code,
     language |-> language, tags |-> tags]

\* no call is in progress
NoCalls == [p \in {} |-> [pc |-> "none"]]

(***************************************************************************)
(* Actions.                                                                *)
(***************************************************************************)
Init ==
    /\ files = [p \in {} |-> Raw(<<>>)]
    /\ dirExists = FALSE
    /\ last = [op |-> "init"]
    /\ ret = ReturnedNone
    /\ hist = [s \in Stems |-> NoAdd]
    /\ nops = 0
    /\ pending = NoCalls

\* datetime.now(): time is counted in the calls that write, so that every
\* add_snippet gets a later time than the calls before it
now == nops

\* get_snippets_dir(): mkdir(parents=True, exist_ok=True), run by every call
get_snippets_dir == dirExists' = TRUE

\* a call that may change the files; it runs to its end in one step
Write ==
    /\ nops < MaxOps
    /\ nops' = nops + 1
    /\ get_snippets_dir
    /\ UNCHANGED pending

\* a call that only reads the files
Read == get_snippets_dir /\ UNCHANGED <<nops, pending>>

AddSnippet(name, code, language, tags) ==
    LET r == add_snippet(files, name, code, language, tags, now)
    IN  /\ Write
        /\ files' = r.files
        /\ ret' = r.ret
        /\ last' = [op |-> "add_snippet", name |-> name, code |-> code,
                    language |-> language, tags |-> tags]
        /\ hist' = [hist EXCEPT ![sanitize_name(name)] = Added(name, code, language, tags)]

GetSnippet(name) ==
    /\ Read
    /\ ret' = get_snippet(files, name)
    /\ last' = [op |-> "get_snippet", name |-> name]
    /\ UNCHANGED <<files, hist>>

DeleteSnippet(name) ==
    LET r == delete_snippet(files, name)
    IN  /\ Write
        /\ files' = r.files
        /\ ret' = r.ret
        /\ last' = [op |-> "delete_snippet", name |-> name]
        /\ hist' = [hist EXCEPT ![sanitize_name(name)] = NoAdd]

UpdateSnippetMeta(name, tags_given, tags) ==
    LET r == update_snippet_meta(files, name, tags_given, tags)
        s == sanitize_name(name)
    IN  /\ Write
        /\ files' = r.files
        /\ ret' = r.ret
        /\ last' = [op |-> "update_snippet_meta", name |-> name,
                    tags_given |-> tags_given, tags |-> tags]
        /\ hist' = IF tags_given /\ hist[s].present
                   THEN [hist EXCEPT ![s].tags = tags]
                   ELSE hist

ListAllSnippets ==
    /\ Read
    /\ ret' \in list_all_snippets(files)
    /\ last' = [op |-> "list_all_snippets"]
    /\ UNCHANGED <<files, hist>>

SearchSnippets(query) ==
    /\ Read
    /\ ret' \in search_snippets(files, query)
    /\ last' = [op |-> "search_snippets", query |-> query]
    /\ UNCHANGED <<files, hist>>

Next ==
    \/ \E name \in Names, code \in Codes, language \in Languages, tags \in TagLists :
            AddSnippet(name, code, language, tags)
    \/ \E name \in Spellings : GetSnippet(name)
    \/ \E name \in Names : DeleteSnippet(name)
    \/ \E name \in Spellings, tags \in TagLists : UpdateSnippetMeta(name, TRUE, tags)
    \/ \E name \in Spellings : UpdateSnippetMeta(name, FALSE, <<>>)
    \/ ListAllSnippets
    \/ \E query \in Queries : SearchSnippets(query)

Spec == Init /\ [][Next]_vars

(***************************************************************************)
(* sanitize_name on its own: a name of the enumeration is sanitised, and   *)
(* the result is sanitised again.                                          *)
(***************************************************************************)
InitSanitize ==
    /\ files = [p \in {} |-> Raw(<<>>)]
    /\ dirExists = FALSE
    /\ \E name \in SanitizeInputs : last = [op |-> "input", name |-> name]
    /\ ret = ReturnedNone
    /\ hist = [s \in Stems |-> NoAdd]
    /\ nops = 0
    /\ pending = NoCalls

CallSanitizeName ==
    /\ last.op = "input"
    /\ last' = [op |-> "sanitize_name", name |-> last.name]
    /\ ret' = [kind |-> "str", val |-> sanitize_name(last.name)]
    /\ UNCHANGED <<files, dirExists, hist, nops, pending>>

CallSanitizeNameAgain ==
    /\ last.op = "sanitize_name"
    /\ last' = [op |-> "sanitize_name_again", name |-> ret.val, first |-> last.name]
    /\ ret' = [kind |-> "str", val |-> sanitize_name(ret.val)]
    /\ UNCHANGED <<files, dirExists, hist, nops, pending>>

NextSanitize == CallSanitizeName \/ CallSanitizeNameAgain

SpecSanitize == InitSanitize /\ [][NextSanitize]_vars

(***************************************************************************)
(* get_extension on its own: a language of the table, or one that is not   *)
(* in it, is looked up with some of its letters in upper case.             *)
(***************************************************************************)
\* the languages LANG_EXTENSIONS has an entry for
LanguageNames == {LANG_ITEMS[i].lang : i \in DOMAIN LANG_ITEMS}

lang_js == <<"j", "s">>
lang_sh == <<"s", "h">>

\* languages without an entry: the empty string, names the run command
\* accepts ("js", "sh", "node") and another word
UnknownLanguages ==
    {<<>>, lang_js, lang_sh, <<"n", "o", "d", "e">>, <<"f", "o", "o">>}

\* the spellings of a language that differ from it in the case of some of
\* its first MaxCasePos letters
CaseVariants(language) ==
    LET n == IF Len(language) < MaxCasePos THEN Len(language) ELSE MaxCasePos
    IN  {[i \in 1..Len(language) |->
            IF i \in up THEN upper_char(language[i]) ELSE language[i]] :
         up \in SUBSET (1..n)}

InitExtension ==
    /\ files = [p \in {} |-> Raw(<<>>)]
    /\ dirExists = FALSE
    /\ \E base \in LanguageNames \cup UnknownLanguages :
        \E language \in CaseVariants(base) :
            last = [op |-> "input", language |-> language, base |-> base]
    /\ ret = ReturnedNone
    /\ hist = [s \in Stems |-> NoAdd]
    /\ nops = 0
    /\ pending = NoCalls

CallGetExtension ==
    /\ last.op = "input"
    /\ last' = [op |-> "get_extension", language |-> last.language, base |-> last.base]
    /\ ret' = [kind |-> "str", val |-> get_extension(last.language)]
    /\ UNCHANGED <<files, dirExists, hist, nops, pending>>

NextExtension == CallGetExtension

SpecExtension == InitExtension /\ [][NextExtension]_vars

(***************************************************************************)
(* The commands add, import and edit (cli.py) on top of the storage calls. *)
(* A command runs to its end in one step, except the edit that changes the *)
(* language: its delete_snippet and its add_snippet are two steps, and     *)
(* between them another process may read, or the command may die.          *)
(***************************************************************************)
\* raise SystemExit(status)
Exited(status) == [kind |-> "exit", status |-> status]

\* the characters str.strip() removes
whitespace == {" ", "\t", "\n", "\r"}

\* not code.strip()
is_blank(code) == \A i \in DOMAIN code.chars : code.chars[i] \in whitespace

\* sys.stdin.read() and Path.read_text(): text mode, newlines translated
read_text(text) == f_read(text)

\* Path.suffix: the last dot of the file name and what follows it
path_suffix(path) ==
    LET dots == {i \in 2..(Len(path) - 1) : path[i] = "."}
    IN  IF dots = {} THEN <<>>
        ELSE SubSeq(path, CHOOSE i \in dots : \A j \in dots : j <= i, Len(path))

\* the loop over LANG_EXTENSIONS.items(): the first language of the table
\* with the extension, "text" when there is none
reverse_lookup(ext) ==
    LET hits == {i \in DOMAIN LANG_ITEMS : LANG_ITEMS[i].ext = ext}
    IN  IF hits = {} THEN text_language
        ELSE LANG_ITEMS[CHOOSE i \in hits : \A j \in hits : i <= j].lang

\* the add command
cmd_add(fs, name, stdin, language, tags, time) ==
    IF sanitize_name(name) = unnamed
    THEN [files |-> fs, ret |-> Exited(1)]
    ELSE LET code == read_text(stdin)
         IN  IF is_blank(code)
             THEN [files |-> fs, ret |-> Exited(1)]
             ELSE add_snippet(fs, name, code, language, tags, time)

\* the import command; name and language are <<>> when the option is absent
cmd_import(fs, file, text, name_option, language_option, tags, time) ==
    LET code == read_text(text)
        name == IF name_option = <<>> THEN path_stem(file) ELSE name_option
        language == IF language_option = <<>>
                    THEN reverse_lookup(lower(path_suffix(file)))
                    ELSE language_option
    IN  IF sanitize_name(name) = unnamed
        THEN [files |-> fs, ret |-> Exited(1)]
        ELSE add_snippet(fs, name, code, language, tags, time)

\* variant of add_tags: every tag of --add-tag is appended
RECURSIVE add_tags_always(_, _)
add_tags_always(new_tags, add_tag) ==
    IF add_tag = <<>> THEN new_tags
    ELSE add_tags_always(Append(new_tags, Head(add_tag)), Tail(add_tag))

\* "if tag not in new_tags: new_tags.append(tag)", for each tag of --add-tag
RECURSIVE add_tags(_, _)
add_tags(new_tags, add_tag) ==
    IF add_tag = <<>> THEN new_tags
    ELSE add_tags(IF \E i \in DOMAIN new_tags : new_tags[i] = Head(add_tag)
                  THEN new_tags
                  ELSE Append(new_tags, Head(add_tag)),
                  Tail(add_tag))

\* list.remove(tag): the list without the first element equal to tag
list_remove(new_tags, tag) ==
    LET at == {i \in DOMAIN new_tags : new_tags[i] = tag}
        first == CHOOSE i \in at : \A j \in at : i <= j
    IN  IF at = {} THEN new_tags
        ELSE SubSeq(new_tags, 1, first - 1) \o SubSeq(new_tags, first + 1, Len(new_tags))

\* "if tag in new_tags: new_tags.remove(tag)", for each tag of --remove-tag
RECURSIVE remove_tags(_, _)
remove_tags(new_tags, remove_tag) ==
    IF remove_tag = <<>> THEN new_tags
    ELSE remove_tags(list_remove(new_tags, Head(remove_tag)), Tail(remove_tag))

\* the tags the edit command stores
edit_new_tags(current_tags, options) ==
    IF options.tags # <<>> THEN options.tags
    ELSE remove_tags(add_tags(current_tags, options.add_tag), options.remove_tag)

\* language or snippet["language"]
edit_new_language(snippet, options) ==
    IF options.language # <<>> THEN options.language ELSE snippet.language

\* the edit command changes the language: the snippet exists and the
\* language given differs from the one stored
edit_changes_language(fs, name, options) ==
    LET got == get_snippet(fs, name)
    IN  /\ got.kind = "dict"
        /\ "language" \in DOMAIN got.val
        /\ edit_new_language(got.val, options) # got.val.language

\* the edit command with a metadata option, where the language stays
cmd_edit_meta(fs, name, options) ==
    LET got == get_snippet(fs, name)
    IN  IF got.kind = "raise" THEN [files |-> fs, ret |-> got]
        ELSE IF got.kind = "None" THEN [files |-> fs, ret |-> Exited(1)]
        ELSE IF "language" \notin DOMAIN got.val
        THEN [files |-> fs, ret |-> Raised("KeyError")]
        ELSE LET new_tags == edit_new_tags(dict_get(got.val, "tags", <<>>), options)
                 r == update_snippet_meta(fs, name, TRUE, new_tags)
             IN  [files |-> r.files, ret |-> ReturnedNone]

\* inputs of the commands
lang_go == <<"g", "o">>
lang_PYTHON == <<"P", "Y", "T", "H", "O", "N">>

CliNames == {name_a, <<".">>}

\* the spellings the edit command is given for the snippet
EditNames == {name_a, name_a_dot}

CliTexts == {Raw(<<"x">>), Raw(<<" ">>)}

CliTagLists == {<<>>, <<tag_T, tag_T>>}

NoOptions == [language |-> <<>>, tags |-> <<>>, add_tag |-> <<>>, remove_tag |-> <<>>]

EditOptions ==
    { [NoOptions EXCEPT !.language = lang_go],
      [NoOptions EXCEPT !.language = lang_PYTHON],
      [NoOptions EXCEPT !.language = lang_go, !.add_tag = <<tag_u>>],
      [NoOptions EXCEPT !.add_tag = <<tag_T, tag_u, tag_u>>],
      [NoOptions EXCEPT !.add_tag = <<tag_u>>, !.remove_tag = <<tag_T>>],
      [NoOptions EXCEPT !.tags = <<tag_u, tag_u>>] }

file_a_PY == <<"a", ".", "P", "Y">>
file_a_sh == <<"a", ".", "s", "h">>
file_a_z == <<"a", ".", "z">>
file_a == <<"a">>
file_dot_a == <<".", ".", "a">>

\* the imports: file name, file text, --name, --language
ImportInputs ==
    { [file |-> file_a_PY, text |-> Raw(<<"x">>), name |-> <<>>, language |-> <<>>],
      [file |-> file_a_PY, text |-> Raw(<<"x", "\r", "\n">>), name |-> <<>>, language |-> <<>>],
      [file |-> file_a_sh, text |-> Raw(<<>>), name |-> <<>>, language |-> <<>>],
      [file |-> file_a_z, text |-> Raw(<<"x">>), name |-> <<>>, language |-> <<>>],
      [file |-> file_a, text |-> Raw(<<" ">>), name |-> <<>>, language |-> <<>>],
      [file |-> file_a, text |-> Raw(<<"x">>), name |-> <<".">>, language |-> <<>>],
      [file |-> file_dot_a, text |-> Raw(<<"x">>), name |-> name_a, language |-> lang_go] }

\* what the history keeps of the add that created a snippet
AddedAt(name, code, language, tags, created) ==
    [present |-> TRUE, name |-> name, code |-> code,
     language |-> language, tags |-> tags, created |-> created]

\* a command starts: no other command is in progress
Command ==
    /\ pending = NoCalls
    /\ Write

CmdAdd(name, stdin, language, tags) ==
    LET r == cmd_add(files, name, stdin, language, tags, now)
    IN  /\ Command
        /\ files' = r.files
        /\ ret' = r.ret
        /\ last' = [op |-> "add", name |-> name, code |-> stdin,
                    language |-> language, tags |-> tags, wrote |-> r.files # files]
        /\ hist' = IF r.ret = ReturnedNone
                   THEN [hist EXCEPT ![sanitize_name(name)] =
                            AddedAt(name, read_text(stdin), language, tags, now)]
                   ELSE hist

\* storage.add_snippet called by a program other than the commands
CallAddSnippet(name, code, language, tags) ==
    LET r == add_snippet(files, name, code, language, tags, now)
    IN  /\ Command
        /\ files' = r.files
        /\ ret' = r.ret
        /\ last' = [op |-> "add_snippet", name |-> name, code |-> code,
                    language |-> language, tags |-> tags]
        /\ hist' = [hist EXCEPT ![sanitize_name(name)] =
                        AddedAt(name, code, language, tags, now)]

CmdImport(in, tags) ==
    LET r == cmd_import(files, in.file, in.text, in.name, in.language, tags, now)
        name == IF in.name = <<>> THEN path_stem(in.file) ELSE in.name
    IN  /\ Command
        /\ files' = r.files
        /\ ret' = r.ret
        /\ last' = [op |-> "import", file |-> in.file, code |-> in.text,
                    name |-> in.name, language |-> in.language, tags |-> tags,
                    wrote |-> r.files # files]
        /\ hist' = IF r.ret = ReturnedNone
                   THEN [hist EXCEPT ![sanitize_name(name)] =
                            AddedAt(name, read_text(in.text), in.language, tags, now)]
                   ELSE hist

CmdEditMeta(name, options) ==
    LET r == cmd_edit_meta(files, name, options)
    IN  /\ ~edit_changes_language(files, name, options)
        /\ Command
        /\ files' = r.files
        /\ ret' = r.ret
        /\ last' = [op |-> "edit", name |-> name, options |-> options,
                    snippet |-> get_snippet(files, name), step |-> "update"]
        /\ UNCHANGED hist

\* the edit command up to and including storage.delete_snippet(name)
CmdEditDelete(name, options) ==
    LET snippet == get_snippet(files, name).val
        r == delete_snippet(files, name)
    IN  /\ edit_changes_language(files, name, options)
        /\ pending = NoCalls
        /\ nops < MaxOps
        /\ nops' = nops + 1
        /\ get_snippets_dir
        /\ files' = r.files
        /\ ret' = r.ret
        /\ pending' = [name |-> name, options |-> options, snippet |-> snippet,
                       code |-> snippet.code,
                       new_language |-> edit_new_language(snippet, options),
                       new_tags |-> edit_new_tags(dict_get(snippet, "tags", <<>>), options)]
        /\ last' = [op |-> "edit", name |-> name, options |-> options,
                    snippet |-> ReturnedDict(snippet), step |-> "delete"]
        /\ UNCHANGED hist

\* storage.add_snippet(name, code, new_language, new_tags) of the edit command
CmdEditAdd ==
    LET r == add_snippet(files, pending.name, pending.code,
                         pending.new_language, pending.new_tags, now)
    IN  /\ pending # NoCalls
        /\ get_snippets_dir
        /\ files' = r.files
        /\ ret' = r.ret
        /\ pending' = NoCalls
        /\ last' = [op |-> "edit", name |-> pending.name, options |-> pending.options,
                    snippet |-> ReturnedDict(pending.snippet), step |-> "add"]
        /\ UNCHANGED <<hist, nops>>

\* the process of the edit command dies between its two storage calls
CmdEditCrash ==
    /\ pending # NoCalls
    /\ pending' = NoCalls
    /\ last' = [op |-> "edit", name |-> pending.name, options |-> pending.options,
                snippet |-> ReturnedDict(pending.snippet), step |-> "crash"]
    /\ ret' = Raised("killed")
    /\ hist' = [hist EXCEPT ![sanitize_name(pending.name)] = NoAdd]
    /\ UNCHANGED <<files, dirExists, nops>>

\* another process reads the snippet while the edit is between its calls
ConcurrentGet ==
    /\ pending # NoCalls
    /\ GetSnippet(pending.name)

NextCli ==
    \/ \E name \in CliNames, stdin \in CliTexts, tags \in CliTagLists :
            CmdAdd(name, stdin, lang_Python, tags)
    \/ \E in \in ImportInputs : CmdImport(in, <<>>)
    \/ \E name \in EditNames, options \in EditOptions : CmdEditMeta(name, options)
    \/ \E name \in EditNames, options \in EditOptions : CmdEditDelete(name, options)
    \/ CmdEditAdd
    \/ CmdEditCrash
    \/ ConcurrentGet
    \/ \E tags \in CliTagLists : pending = NoCalls /\ UpdateSnippetMeta(name_a, TRUE, tags)
    \/ CallAddSnippet(name_a, Raw(<<"\r">>), lang_Python, <<tag_u>>)

SpecCli == Init /\ [][NextCli]_vars

(***************************************************************************)
(* get_snippet by one process while another process runs delete_snippet or *)
(* add_snippet on the same name.  Every step is one file operation: an     *)
(* existence check, the opening and reading of a file, the opening of a    *)
(* file for writing (which empties it), the write, an unlink.              *)
(***************************************************************************)
race_name == name_a

race_meta_path == sanitize_name(race_name) \o meta_suffix

\* the stores the two processes start in: empty, or with the snippet
RaceStores ==
    {[p \in {} |-> Raw(<<>>)]}
        \cup {add_snippet([p \in {} |-> Raw(<<>>)], race_name, Raw(<<"x">>),
                          language, <<tag_T>>, 0).files :
              language \in {lang_Python, lang_go}}

\* the calls of the writing process
RaceWriters ==
    {[op |-> "delete_snippet", pc |-> "find"]}
        \cup {[op |-> "add_snippet", pc |-> "open_code", code |-> Raw(<<"y">>),
               language |-> language, tags |-> <<tag_u>>] :
              language \in {lang_Python, lang_go}}

InitRace ==
    /\ files \in RaceStores
    /\ dirExists = TRUE
    /\ last = [op |-> "get_snippet", name |-> race_name]
    /\ ret = ReturnedNone
    /\ hist = [s \in Stems |-> NoAdd]
    /\ nops = 0
    /\ \E writer \in RaceWriters :
        pending = [reader |-> [pc |-> "find_exists"], writer |-> writer]

\* the reading process is at the step pc of get_snippet
reader_at(pc) == pending.reader.pc = pc

\* the reading process moves on
reader_goes(reader) ==
    /\ pending' = [pending EXCEPT !.reader = reader]
    /\ UNCHANGED <<files, dirExists, last, ret, hist, nops>>

\* get_snippet ends with a value or an exception
reader_ends(result) ==
    /\ pending' = [pending EXCEPT !.reader = [pc |-> "done"]]
    /\ ret' = result
    /\ UNCHANGED <<files, dirExists, last, hist, nops>>

\* open(path, "r") and json.load(f) on the files as they are now
open_and_load(fs, path) ==
    IF ~exists(fs, path)
    THEN [exc |-> "FileNotFoundError", obj |-> EmptyDict]
    ELSE json_load(fs[path])

\* find_snippet_files: if not meta_path.exists()
ReaderFindExists ==
    /\ reader_at("find_exists")
    /\ IF exists(files, race_meta_path)
       THEN reader_goes([pc |-> "find_load"])
       ELSE reader_ends(ReturnedNone)

\* find_snippet_files: open(meta_path, "r"), json.load(f)
ReaderFindLoad ==
    LET loaded == open_and_load(files, race_meta_path)
        ext == get_extension(dict_get(loaded.obj, "language", text_language))
    IN  /\ reader_at("find_load")
        /\ IF loaded.exc # "none"
           THEN reader_ends(Raised(loaded.exc))
           ELSE reader_goes([pc |-> "find_code_exists",
                             code_path |-> sanitize_name(race_name) \o ext])

\* find_snippet_files: if not code_path.exists()
ReaderFindCodeExists ==
    /\ reader_at("find_code_exists")
    /\ reader_goes([pc |-> "get_exists",
                    code_path |-> IF exists(files, pending.reader.code_path)
                                  THEN pending.reader.code_path
                                  ELSE None])

\* get_snippet: if not meta_path or not meta_path.exists()
ReaderGetExists ==
    /\ reader_at("get_exists")
    /\ IF exists(files, race_meta_path)
       THEN reader_goes([pending.reader EXCEPT !.pc = "get_load"])
       ELSE reader_ends(ReturnedNone)

\* get_snippet: open(meta_path, "r"), json.load(f)
ReaderGetLoad ==
    LET loaded == open_and_load(files, race_meta_path)
    IN  /\ reader_at("get_load")
        /\ IF loaded.exc # "none"
           THEN reader_ends(Raised(loaded.exc))
           ELSE reader_goes([pc |-> "get_code_exists",
                             code_path |-> pending.reader.code_path,
                             meta |-> loaded.obj])

\* get_snippet: if code_path and code_path.exists()
ReaderGetCodeExists ==
    /\ reader_at("get_code_exists")
    /\ IF pending.reader.code_path # None /\ exists(files, pending.reader.code_path)
       THEN reader_goes([pending.reader EXCEPT !.pc = "get_read"])
       ELSE reader_ends(ReturnedDict(dict_set(pending.reader.meta, "code", Raw(<<>>))))

\* get_snippet: open(code_path, "r"), f.read()
ReaderGetRead ==
    /\ reader_at("get_read")
    /\ IF ~exists(files, pending.reader.code_path)
       THEN reader_ends(Raised("FileNotFoundError"))
       ELSE reader_ends(ReturnedDict(dict_set(pending.reader.meta, "code",
                                              f_read(files[pending.reader.code_path]))))

\* the writing process is at the step pc of its call
writer_at(op, pc) == pending.writer.op = op /\ pending.writer.pc = pc

\* the writing process moves on, leaving the files fs
writer_goes(writer, fs) ==
    /\ pending' = [pending EXCEPT !.writer = writer]
    /\ files' = fs
    /\ UNCHANGED <<dirExists, last, ret, hist, nops>>

\* delete_snippet: find_snippet_files(name), which only reads
DeleterFind ==
    LET found == find_snippet_files(files, race_name)
    IN  /\ writer_at("delete_snippet", "find")
        /\ IF found.exc # "none" \/ found.meta_path = None
           THEN writer_goes([op |-> "delete_snippet", pc |-> "done"], files)
           ELSE writer_goes([op |-> "delete_snippet", pc |-> "unlink_code",
                             code_path |-> found.code_path,
                             meta_path |-> found.meta_path], files)

\* delete_snippet: if code_path and code_path.exists(): code_path.unlink()
DeleterUnlinkCode ==
    LET code_path == pending.writer.code_path
    IN  /\ writer_at("delete_snippet", "unlink_code")
        /\ writer_goes([pending.writer EXCEPT !.pc = "unlink_meta"],
                       IF code_path # None /\ exists(files, code_path)
                       THEN unlink(files, code_path)
                       ELSE files)

\* delete_snippet: if meta_path.exists(): meta_path.unlink()
DeleterUnlinkMeta ==
    LET meta_path == pending.writer.meta_path
    IN  /\ writer_at("delete_snippet", "unlink_meta")
        /\ writer_goes([op |-> "delete_snippet", pc |-> "done"],
                       IF exists(files, meta_path) THEN unlink(files, meta_path) ELSE files)

\* add_snippet: open(code_path, "w") creates the file or empties it
AdderOpenCode ==
    LET paths == get_snippet_paths(race_name, pending.writer.language)
    IN  /\ writer_at("add_snippet", "open_code")
        /\ writer_goes([pending.writer EXCEPT !.pc = "write_code"],
                       write_file(files, paths.code_path, Raw(<<>>)))

\* add_snippet: f.write(code), and the file is closed
AdderWriteCode ==
    LET paths == get_snippet_paths(race_name, pending.writer.language)
    IN  /\ writer_at("add_snippet", "write_code")
        /\ writer_goes([pending.writer EXCEPT !.pc = "open_meta"],
                       write_file(files, paths.code_path, pending.writer.code))

\* add_snippet: open(meta_path, "w") creates the file or empties it
AdderOpenMeta ==
    LET paths == get_snippet_paths(race_name, pending.writer.language)
    IN  /\ writer_at("add_snippet", "open_meta")
        /\ writer_goes([pending.writer EXCEPT !.pc = "write_meta"],
                       write_file(files, paths.meta_path, Raw(<<>>)))

\* add_snippet: json.dump(meta, f, indent=2), and the file is closed
AdderWriteMeta ==
    LET paths == get_snippet_paths(race_name, pending.writer.language)
    IN  /\ writer_at("add_snippet", "write_meta")
        /\ writer_goes([pending.writer EXCEPT !.pc = "done"],
                       write_file(files, paths.meta_path,
                                  json_dump(new_meta(race_name, pending.writer.language,
                                                     pending.writer.tags, 1))))

NextRace ==
    \/ ReaderFindExists
    \/ ReaderFindLoad
    \/ ReaderFindCodeExists
    \/ ReaderGetExists
    \/ ReaderGetLoad
    \/ ReaderGetCodeExists
    \/ ReaderGetRead
    \/ DeleterFind
    \/ DeleterUnlinkCode
    \/ DeleterUnlinkMeta
    \/ AdderOpenCode
    \/ AdderWriteCode
    \/ AdderOpenMeta
    \/ AdderWriteMeta

SpecRace == InitRace /\ [][NextRace]_vars

(***************************************************************************)
(* Properties.                                                             *)
(***************************************************************************)
\* the metadata path and the stem of a name
meta_path_of(name) == sanitize_name(name) \o meta_suffix

\* C1: Round trip. Right after add_snippet(name, code, language, tags),
\* get_snippet(name) returns a record whose code, language and tags are the
\* ones given (stated as the original claim: for every code).
C1_RoundTrip ==
    last.op = "add_snippet" =>
        LET got == get_snippet(files, last.name)
        IN  /\ got.kind = "dict"
            /\ got.val.code = last.code
            /\ got.val.language = last.language
            /\ got.val.tags = last.tags

\* C2: Last write wins per sanitized name. For every spelling q, get_snippet(q)
\* is not-found when no add is current for sanitize_name(q), and otherwise a
\* record with the name, code and language of the most recent add and the tags
\* of that add or of a later update that supplied tags.
C2_LastWriteWins ==
    \A q \in Spellings :
        LET h == hist[sanitize_name(q)]
            got == get_snippet(files, q)
        IN  IF ~h.present
            THEN got = ReturnedNone
            ELSE /\ got.kind = "dict"
                 /\ got.val.name = h.name
                 /\ got.val.code = h.code
                 /\ got.val.language = h.language
                 /\ got.val.tags = h.tags

\* C3: delete_snippet(name) returns true exactly when the metadata file of
\* sanitize_name(name) exists at the call; after it returns true neither the
\* metadata file nor the content file at the extension of the recorded
\* language exists, and get_snippet(name) returns not-found.
C3_DeleteContract ==
    [][\A name \in Names :
        DeleteSnippet(name) =>
            /\ ret'.kind = "bool"
            /\ ret'.val = exists(files, meta_path_of(name))
            /\ ret'.val =>
                /\ ~exists(files', meta_path_of(name))
                /\ LET meta == json_load(files[meta_path_of(name)]).obj
                       ext == get_extension(dict_get(meta, "language", text_language))
                   IN  ~exists(files', sanitize_name(name) \o ext)
                /\ get_snippet(files', name) = ReturnedNone]_vars

\* C4 as stated: for a name whose metadata file does not exist, get_snippet
\* returns None, delete_snippet and update_snippet_meta return False, and
\* nothing in the file system changes, the directory included.
C4_NotFoundNoMutation ==
    [][\A name \in Spellings :
        ~exists(files, meta_path_of(name)) =>
            /\ GetSnippet(name) =>
                ret' = ReturnedNone /\ files' = files /\ dirExists' = dirExists
            /\ (name \in Names /\ DeleteSnippet(name)) =>
                ret' = ReturnedBool(FALSE) /\ files' = files /\ dirExists' = dirExists
            /\ (\E tags_given \in BOOLEAN, tags \in TagLists :
                    UpdateSnippetMeta(name, tags_given, tags)) =>
                ret' = ReturnedBool(FALSE) /\ files' = files /\ dirExists' = dirExists]_vars

\* C4 amended: for a name whose metadata file does not exist, get_snippet
\* returns None, delete_snippet and update_snippet_meta return False, none
\* raises and no file is created, changed or removed; the one effect on the
\* file system is that the snippets directory exists afterwards.
C4_NotFoundNoFileMutation ==
    [][\A name \in Spellings :
        ~exists(files, meta_path_of(name)) =>
            /\ GetSnippet(name) =>
                ret' = ReturnedNone /\ files' = files /\ dirExists'
            /\ (name \in Names /\ DeleteSnippet(name)) =>
                ret' = ReturnedBool(FALSE) /\ files' = files /\ dirExists'
            /\ (\E tags_given \in BOOLEAN, tags \in TagLists :
                    UpdateSnippetMeta(name, tags_given, tags)) =>
                ret' = ReturnedBool(FALSE) /\ files' = files /\ dirExists']_vars

\* an update of a name without metadata has returned False in a store that
\* holds files of other snippets
C4_Witness ==
    /\ last.op = "update_snippet_meta"
    /\ ret = ReturnedBool(FALSE)
    /\ ~exists(files, meta_path_of(last.name))
    /\ DOMAIN files # {}

\* the metadata file of the name exists and holds a dictionary
has_metadata(fs, name) ==
    /\ exists(fs, meta_path_of(name))
    /\ json_load(fs[meta_path_of(name)]).exc = "none"

\* C5: update_snippet_meta(name, tags) on an existing snippet returns True
\* and changes only the tags field: every other field of the metadata is as
\* before, no other file is written, created or removed, get_snippet(name)
\* then returns the tags given; with tags=None the metadata stays as it was.
C5_UpdateOnlyTags ==
    [][\A name \in Spellings, tags_given \in BOOLEAN, tags \in TagLists :
        (UpdateSnippetMeta(name, tags_given, tags) /\ has_metadata(files, name)) =>
            LET mp == meta_path_of(name)
                old == json_load(files[mp]).obj
                new == json_load(files'[mp]).obj
            IN  /\ ret' = ReturnedBool(TRUE)
                /\ DOMAIN files' = DOMAIN files
                /\ \A p \in DOMAIN files \ {mp} : files'[p] = files[p]
                /\ files'[mp].kind = "json"
                /\ \A k \in DOMAIN old \ {"tags"} : k \in DOMAIN new /\ new[k] = old[k]
                /\ tags_given =>
                    /\ DOMAIN new = DOMAIN old \cup {"tags"}
                    /\ new.tags = tags
                    /\ get_snippet(files', name).kind = "dict"
                    /\ get_snippet(files', name).val.tags = tags
                /\ ~tags_given => new = old]_vars

\* an update under another spelling of the name has replaced the tags of a
\* snippet that was created earlier
C5_Witness ==
    /\ last.op = "update_snippet_meta"
    /\ last.name = name_a
    /\ last.tags_given
    /\ last.tags # <<>>
    /\ ret = ReturnedBool(TRUE)
    /\ has_metadata(files, last.name)
    /\ json_load(files[meta_path_of(last.name)]).obj.tags = last.tags
    /\ json_load(files[meta_path_of(last.name)]).obj.name = name_a_dot

\* the metadata of the name exists and the content file at the extension of
\* the language it records does not
orphaned(fs, name) ==
    /\ has_metadata(fs, name)
    /\ LET meta == json_load(fs[meta_path_of(name)]).obj
       IN  ~exists(fs, sanitize_name(name)
                        \o get_extension(dict_get(meta, "language", text_language)))

\* C6: Orphaned metadata. When the metadata file of a name exists and the
\* content file at the extension of the language recorded in it does not,
\* get_snippet(name) returns the metadata fields with code "" and does not
\* raise, whatever other files the name has.
C6_OrphanedMetadata ==
    (last.op = "get_snippet" /\ orphaned(files, last.name)) =>
        ret = ReturnedDict(dict_set(json_load(files[meta_path_of(last.name)]).obj,
                                    "code", Raw(<<>>)))

\* get_snippet has answered for a name with orphaned metadata
C6_Witness ==
    /\ last.op = "get_snippet"
    /\ orphaned(files, last.name)
    /\ ret.kind = "dict"
    /\ ret.val.code = Raw(<<>>)
    /\ ret.val.name = name_a_meta

\* the claim's matching rule: the query, compared case-insensitively, is a
\* substring of the name, of the language or of a tag
C7_Matches(query, name, data) ==
    LET q == lower(query)
    IN  \/ contains(lower(name), q)
        \/ "language" \in DOMAIN data /\ contains(lower(data.language), q)
        \/ "tags" \in DOMAIN data /\ \E i \in DOMAIN data.tags :
                contains(lower(data.tags[i]), q)

\* C7: search_snippets(q) returns exactly the entries of list_all_snippets()
\* that match q, each with the value list_all_snippets() gives it; the result
\* is the empty mapping when nothing matches.
C7_SearchIsFilteredList ==
    last.op = "search_snippets" =>
        \E listing \in list_all_snippets(files) :
            IF listing.kind = "raise" THEN ret = listing
            ELSE /\ ret.kind = "mapping"
                 /\ DOMAIN ret.val =
                        {n \in DOMAIN listing.val :
                            C7_Matches(last.query, n, listing.val[n])}
                 /\ \A n \in DOMAIN ret.val : ret.val[n] = listing.val[n]

\* a search has returned some of the listed snippets and left out others
C7_Witness ==
    /\ last.op = "search_snippets"
    /\ ret.kind = "mapping"
    /\ DOMAIN ret.val # {}
    /\ \E listing \in list_all_snippets(files) :
            /\ listing.kind = "mapping"
            /\ DOMAIN ret.val # DOMAIN listing.val

\* the names snippets are added and deleted under sanitize to distinct stems
NamesDistinct ==
    \A m, n \in Names : sanitize_name(m) = sanitize_name(n) => m = n

\* C8: after adds and deletes under names with distinct stems,
\* list_all_snippets() returns one entry per stored snippet, keyed by the
\* recorded name, holding the metadata fields and no code; it is the empty
\* mapping when no snippet is stored.
C8_ListAll ==
    (NamesDistinct /\ last.op = "list_all_snippets") =>
        /\ ret.kind = "mapping"
        /\ DOMAIN ret.val = {hist[s].name : s \in {t \in Stems : hist[t].present}}
        /\ \A s \in Stems : hist[s].present =>
                LET entry == ret.val[hist[s].name]
                IN  /\ entry.name = hist[s].name
                    /\ entry.language = hist[s].language
                    /\ entry.tags = hist[s].tags
                    /\ "created" \in DOMAIN entry
                    /\ "code" \notin DOMAIN entry

\* C9: sanitize_name is idempotent: sanitising a sanitised name gives it back.
C9_Idempotent ==
    last.op = "sanitize_name_again" => ret.val = last.name

\* a name that sanitize_name changed has been sanitised a second time
C9_Witness ==
    /\ last.op = "sanitize_name_again"
    /\ last.first # last.name
    /\ last.name # unnamed
    /\ ret.val = last.name

\* the name with every problematic character replaced by one underscore
C10_Substituted(name) ==
    [i \in 1..Len(name) |-> IF name[i] \in problematic THEN "_" ELSE name[i]]

\* the positions from the first to the last character that is neither a
\* space nor a dot
C10_Kept(name) ==
    {i \in 1..Len(name) :
        /\ \E j \in 1..i : C10_Substituted(name)[j] \notin {" ", "."}
        /\ \E k \in i..Len(name) : C10_Substituted(name)[k] \notin {" ", "."}}

\* what is left of the name after the substitution and the stripping
C10_Left(name) ==
    LET kept == C10_Kept(name)
    IN  IF kept = {} THEN <<>>
        ELSE SubSeq(C10_Substituted(name),
                    CHOOSE i \in kept : \A j \in kept : i <= j,
                    CHOOSE i \in kept : \A j \in kept : j <= i)

\* what C10 says of every result but for the fallback
C10_Shape(name, result) ==
    /\ result # <<>>
    /\ \A i \in 1..Len(result) : result[i] \notin problematic
    /\ result[1] \notin {" ", "."}
    /\ result[Len(result)] \notin {" ", "."}
    /\ C10_Left(name) # <<>> => result = C10_Left(name)

\* C10 as stated: the result is non-empty, has no problematic character and
\* no space or dot at either end, is the name with each problematic character
\* replaced by one underscore and the edges stripped, and is "unnamed" exactly
\* when nothing is left after the stripping.
C10_SanitizeContract ==
    last.op = "sanitize_name" =>
        /\ C10_Shape(last.name, ret.val)
        /\ ret.val = unnamed <=> C10_Left(last.name) = <<>>

\* C10 amended: as stated, but the result is "unnamed" whenever nothing is
\* left after the stripping (a name that strips to "unnamed" gives it too).
C10_SanitizeAmended ==
    last.op = "sanitize_name" =>
        /\ C10_Shape(last.name, ret.val)
        /\ C10_Left(last.name) = <<>> => ret.val = unnamed

\* a run of problematic characters after a dot has been sanitised
C10_Witness ==
    /\ last.op = "sanitize_name"
    /\ last.name = <<".", "/", "*">>
    /\ ret.val = <<"_", "_">>

\* only dots and spaces have been sanitised
C10_WitnessFallback ==
    /\ last.op = "sanitize_name"
    /\ last.name = <<".", " ", ".">>
    /\ ret.val = unnamed

\* the extension the table gives a lower-case language, ".txt" without entry
C11_TableExtension(base) ==
    IF \E i \in DOMAIN LANG_ITEMS : LANG_ITEMS[i].lang = base
    THEN LANG_ITEMS[CHOOSE i \in DOMAIN LANG_ITEMS : LANG_ITEMS[i].lang = base].ext
    ELSE <<".", "t", "x", "t">>

\* C11: get_extension is case-insensitive and total: a language gets the
\* extension of every spelling that differs from it only in letter case, and
\* a language without an entry, the empty string included, gets ".txt".
C11_CaseInsensitive ==
    last.op = "get_extension" =>
        /\ ret.val = C11_TableExtension(last.base)
        /\ \A other \in CaseVariants(last.base) : get_extension(other) = ret.val
        /\ last.base \in UnknownLanguages => ret.val = <<".", "t", "x", "t">>

\* a language of the table has been looked up in mixed case
C11_Witness ==
    /\ last.op = "get_extension"
    /\ last.language = <<"P", "Y", "t", "h", "o", "n">>
    /\ ret.val = <<".", "p", "y">>

\* the empty language has been looked up
C11_WitnessEmpty ==
    /\ last.op = "get_extension"
    /\ last.language = <<>>
    /\ ret.val = <<".", "t", "x", "t">>

\* the alias groups of C12, in lower case
C12_AliasGroups ==
    { {lang_js, <<"j", "a", "v", "a", "s", "c", "r", "i", "p", "t">>},
      {lang_sh, <<"b", "a", "s", "h">>, <<"z", "s", "h">>},
      {<<"y", "m", "l">>, <<"y", "a", "m", "l">>},
      {<<"c", "+", "+">>, <<"c", "p", "p">>} }

\* C12: the members of each alias group (js/javascript, sh/bash/zsh,
\* yml/yaml, c++/cpp) get the same extension.
C12_Aliases ==
    last.op = "get_extension" =>
        \A group \in C12_AliasGroups :
            last.base \in group =>
                \A other \in group : get_extension(other) = ret.val

\* the content files of the store: every file that is not a metadata file
content_files(fs) == {p \in DOMAIN fs : ~endswith(p, meta_suffix)}

\* the content file has a metadata file of the same stem whose language maps
\* to its extension
has_sibling(fs, p) ==
    \E s \in Stems :
        /\ has_metadata(fs, s)
        /\ p = s \o get_extension(dict_get(json_load(fs[meta_path_of(s)]).obj,
                                           "language", text_language))

\* C20: No orphaned content files. After any sequence of completed add,
\* delete and update calls every content file of the store has a sibling
\* metadata file with the same stem whose recorded language maps to the
\* extension of the content file.
C20_NoOrphanedContent ==
    \A p \in content_files(files) : has_sibling(files, p)

\* the edit command has completed a change of the language
language_edit_done == last.op = "edit" /\ last.step = "add"

\* no tag option was given to the edit command
no_tag_option(options) ==
    options.tags = <<>> /\ options.add_tag = <<>> /\ options.remove_tag = <<>>

\* C13: Language-change edit. When the edit command is given a language
\* different from the stored one for an existing snippet, then after it
\* completes get_snippet(name) returns the new language with the code stored
\* before and, when no tag option is given, the tags stored before; the
\* content file under the new extension exists, and the one under the old
\* extension does not when the two extensions differ.
C13_LanguageChange ==
    language_edit_done =>
        LET got == get_snippet(files, last.name)
            old == last.snippet.val
            stem == sanitize_name(last.name)
            old_ext == get_extension(old.language)
            new_ext == get_extension(last.options.language)
        IN  /\ last.options.language # old.language
            /\ got.kind = "dict"
            /\ got.val.language = last.options.language
            /\ got.val.code = old.code
            /\ no_tag_option(last.options) => got.val.tags = old.tags
            /\ exists(files, stem \o new_ext)
            /\ old_ext # new_ext => ~exists(files, stem \o old_ext)

\* a snippet with tags has been moved from Python to go by the edit command
C13_Witness ==
    /\ language_edit_done
    /\ no_tag_option(last.options)
    /\ last.snippet.val.language = lang_Python
    /\ last.snippet.val.tags = <<tag_T, tag_T>>
    /\ last.options.language = lang_go
    /\ exists(files, <<"a", ".", "g", "o">>)

\* the edit command has changed the language to one of the same extension
C13_WitnessSameExtension ==
    /\ language_edit_done
    /\ last.snippet.val.language = lang_Python
    /\ last.options.language = lang_PYTHON
    /\ exists(files, <<"a", ".", "p", "y">>)

\* C14: The created timestamp is set once by the add that created the
\* snippet and is not changed by a metadata edit: after update_snippet_meta
\* calls and edit commands with metadata options (tags, language) on an
\* existing snippet, get_snippet(name).created is the value written at
\* creation.
C14_CreatedOnce ==
    \A name \in CliNames :
        LET s == sanitize_name(name)
        IN  (/\ s \in Stems
             /\ hist[s].present
             /\ pending = NoCalls
             /\ last.op \in {"edit", "update_snippet_meta"}) =>
                LET got == get_snippet(files, name)
                IN  /\ got.kind = "dict"
                    /\ got.val.created = hist[s].created

\* the elements of a list
elements(list) == {list[i] : i \in DOMAIN list}

\* a call or command that creates a snippet has completed
created_snippet ==
    /\ last.op \in {"add", "add_snippet", "import"}
    /\ ret = ReturnedNone

\* the edit command has completed with --add-tag alone among the tag options
tag_add_done ==
    /\ last.op = "edit"
    /\ last.step \in {"update", "add"}
    /\ ret = ReturnedNone
    /\ last.options.add_tag # <<>>
    /\ last.options.tags = <<>>
    /\ last.options.remove_tag = <<>>

\* the tags of the snippet just created or edited
tags_now ==
    get_snippet(files, IF last.op = "import" /\ last.name = <<>>
                       THEN path_stem(last.file)
                       ELSE last.name).val.tags

\* C15 as stated: duplicate tags are never removed. An add stores the tag
\* sequence exactly as given, repeated tags included, and the tag-add of
\* the edit command appends the given tags to the stored ones also when an
\* equal tag is already present.
C15_NeverDeduplicated ==
    /\ created_snippet => tags_now = last.tags
    /\ tag_add_done => tags_now = last.snippet.val.tags \o last.options.add_tag

\* C15 amended: an add stores the tag sequence exactly as given, repeated
\* tags included; the tag-add of the edit command keeps the stored tags,
\* repeated ones included, as they are and appends each given tag once, and
\* only when no equal tag is present.
C15_TagAddSkipsPresent ==
    /\ created_snippet => tags_now = last.tags
    /\ tag_add_done =>
        LET old == last.snippet.val.tags
            given == elements(last.options.add_tag)
        IN  /\ SubSeq(tags_now, 1, Len(old)) = old
            /\ given \subseteq elements(tags_now)
            /\ Len(tags_now) = Len(old) + Cardinality(given \ elements(old))

\* an add has stored a repeated tag, and a tag-add on a snippet that has the
\* tag has left the tags without another copy of it
C15_Witness ==
    /\ tag_add_done
    /\ last.snippet.val.tags = <<tag_T, tag_T>>
    /\ last.options.add_tag = <<tag_T, tag_u, tag_u>>
    /\ tags_now = <<tag_T, tag_T, tag_u>>

\* an add has stored a repeated tag
C15_WitnessAdd ==
    /\ created_snippet
    /\ last.tags = <<tag_T, tag_T>>
    /\ tags_now = <<tag_T, tag_T>>

\* the name a command stores the snippet under
command_name ==
    IF last.op = "import" /\ last.name = <<>> THEN path_stem(last.file) ELSE last.name

\* C16: Invalid input is rejected before any write by the add command and
\* by the import command: when the body is empty or only whitespace, or the
\* name sanitizes to the fallback, the command exits with status 1 and
\* leaves every file as it was.
C16_InvalidInputRejected ==
    (/\ last.op \in {"add", "import"}
     /\ is_blank(last.code) \/ sanitize_name(command_name) = unnamed) =>
        /\ ret = Exited(1)
        /\ ~last.wrote

\* C17: Reverse lookup on import. When the import command is given no
\* language, the language it stores is an entry of the table whose extension
\* is the lower-cased suffix of the file, and "text" when no entry has that
\* extension; without a name option the snippet is named after the stem of
\* the file name; and the code stored is the content of the file.
C17_ReverseLookup ==
    (last.op = "import" /\ ret = ReturnedNone) =>
        LET got == get_snippet(files, command_name).val
            suffix == lower(path_suffix(last.file))
        IN  /\ last.language = <<>> =>
                IF \E i \in DOMAIN LANG_ITEMS : LANG_ITEMS[i].ext = suffix
                THEN /\ got.language \in LanguageNames
                     /\ get_extension(got.language) = suffix
                ELSE got.language = text_language
            /\ last.name = <<>> => got.name = path_stem(last.file)
            /\ got.code = last.code

\* the edit command is between its delete_snippet and its add_snippet, or
\* its process has just died there
edit_window ==
    \/ pending # NoCalls
    \/ last.op = "edit" /\ last.step = "crash"

\* C19: The language-change edit is not atomic. Between its delete step and
\* its add step neither file of the snippet exists: a get_snippet by another
\* process at that point returns None, and when the command dies at that
\* point the snippet stays absent: its metadata file and its content file
\* are gone, and get_snippet returns None.
C19_EditWindow ==
    edit_window =>
        LET name == IF pending # NoCalls THEN pending.name ELSE last.name
            old == IF pending # NoCalls THEN pending.snippet ELSE last.snippet.val
            stem == sanitize_name(name)
        IN  /\ ~exists(files, stem \o meta_suffix)
            /\ ~exists(files, stem \o get_extension(old.language))
            /\ get_snippet(files, name) = ReturnedNone
            /\ (pending # NoCalls /\ last.op = "get_snippet") => ret = ReturnedNone

\* another process has read the snippet between the two steps of the edit
C19_Witness ==
    /\ pending # NoCalls
    /\ last.op = "get_snippet"
    /\ last.name = pending.name
    /\ ret = ReturnedNone
    /\ hist[sanitize_name(pending.name)].present

\* the edit command has died between its two steps
C19_WitnessCrash ==
    /\ last.op = "edit"
    /\ last.step = "crash"
    /\ last.snippet.val.code = Raw(<<"x">>)
    /\ get_snippet(files, last.name) = ReturnedNone

\* C18: A reader that runs concurrently with a writer on the same name is
\* not hit by a fatal race: get_snippet(name), interleaved step by step with
\* a delete_snippet or an add_snippet of the same name by another process,
\* ends with a record or with None, and never with an exception.
C18_NoFatalRace ==
    pending.reader.pc = "done" => ret.kind \in {"dict", "None"}

\* the text of the file at the path, None when there is no such file
file_at(fs, path) == IF exists(fs, path) THEN fs[path] ELSE None

\* the content file the metadata of the name points to, None without
\* metadata that can be read
content_path_of(fs, name) ==
    IF has_metadata(fs, name)
    THEN sanitize_name(name)
            \o get_extension(dict_get(json_load(fs[meta_path_of(name)]).obj,
                                      "language", text_language))
    ELSE None

\* list_all_snippets parses every metadata file
list_all_parses(fs) == Raised("JSONDecodeError") \notin list_all_snippets(fs)

\* C21: add_snippet touches only its own snippet. An add of a name leaves,
\* for every name m of another stem, the metadata file and the content file
\* of m as they were and get_snippet(m) with the same result, and
\* list_all_snippets parses every metadata file afterwards when it did
\* before; for every name and language, a stem ending in ".meta" with a
\* language of extension ".json" included.
C21_AddTouchesOwnSnippet ==
    [][last'.op = "add_snippet" =>
        /\ \A m \in Spellings :
            sanitize_name(m) # sanitize_name(last'.name) =>
                /\ file_at(files', meta_path_of(m)) = file_at(files, meta_path_of(m))
                /\ content_path_of(files, m) # None =>
                    file_at(files', content_path_of(files, m))
                        = file_at(files, content_path_of(files, m))
                /\ get_snippet(files', m) = get_snippet(files, m)
        /\ list_all_parses(files) => list_all_parses(files')]_vars

\* C22: The stored name is kept by edits. After the edit command has
\* changed the language or the tags of a snippet, the name field of its
\* metadata is the unsanitized name given when the snippet was added, also
\* when the edit command was given another spelling of the same stem.
C22_NameKept ==
    (/\ last.op = "edit"
     /\ last.step \in {"update", "add"}
     /\ ret = ReturnedNone
     /\ hist[sanitize_name(last.name)].present) =>
        LET got == get_snippet(files, last.name)
        IN  /\ got.kind = "dict"
            /\ got.val.name = hist[sanitize_name(last.name)].name

====
